---- MODULE Spec2Model ----
(***************************************************************************)
(* Model of the test harness in tests/conftest.py: the session-wide mock   *)
(* server started by start_mock_server, and the pytest fixtures that       *)
(* isolate each test (environment, working directory, patched globals).    *)
(***************************************************************************)
EXTENDS Integers, Sequences, FiniteSets, TLC

VARIABLES
    pc,          \* position of the session: "boot", "poll", "after_loop", "raised",
                 \* "idle", "setup", "body", "teardown", "exited"
    environ,     \* os.environ of the test process: key -> value, Absent when unset
    server,      \* module-level `server` (the Popen handle), NoServer before spawn
    child,       \* the server child process: status and the PORT it was given
    i,           \* loop index of the liveness poll (number of finished attempts)
    started,     \* local `started` of start_mock_server
    poll,        \* bookkeeping of the liveness poll (attempts, backoff, outcome)
    failSteps,   \* what start_mock_server did on its way out when it raised
    atexit,      \* whether test_cleanup is registered with atexit
    ctx,         \* the Context held inside the server process
    attrs,       \* global and foreign-module attributes the fixtures touch
    cwd,         \* os.getcwd() of the test process
    testNo,      \* number of tests finished so far
    test,        \* the running test: requested fixtures, setup plan, progress, outcome
    locals,      \* what the live fixture generators hold (saved cwd, undo lists, args)
    before,      \* environment, cwd, attributes and Context as the test's setup began
    log,         \* setup and teardown steps of the running test, in order
    kfp,         \* wandb/integration/kfp/kfp_patch.py: the kfp modules' attributes,
                 \* wandb.patched, and the caller's packages_to_install list
    hist         \* requests made through the handle's get_ctx/set_ctx/reset_ctx

startVars == <<server, i, started, poll, failSteps>>
testVars == <<ctx, attrs, cwd, testNo, test, locals, before, log>>
sideVars == <<kfp, hist>>
vars == <<pc, environ, server, child, i, started, poll, failSteps, atexit,
          ctx, attrs, cwd, testNo, test, locals, before, log, kfp, hist>>

(***************************************************************************)
(* Bounds and program constants                                            *)
(***************************************************************************)
\* range(10) of the liveness poll
MaxAttempts == 10

\* ports utils.free_port() may hand out
FreePorts == {8080, 10443}

\* tests one session runs
MaxTests == 2

Absent == <<"<absent>">>
NoServer == [port |-> 0, base_url |-> <<>>, methods |-> {}]

EnvKeys == {"PORT", "PYTHONPATH", "WANDB_USERNAME", "WANDB_BASE_URL",
            "WANDB_ERROR_REPORTING", "WANDB_API_KEY", "WANDB_CONSOLE",
            "USERKEY", "LANG", "KUBERNETES_SERVICE_HOST", "TRAINING_JOB_NAME"}

\* variables the developer's shell may already hold when the session starts
PreKeys == {"WANDB_USERNAME", "USERKEY"}

DUMMY_API_KEY == "1824812581259009ca9981580f8f8a9012409eee"

(***************************************************************************)
(* str(port) and "%i" % port: decimal rendering                            *)
(***************************************************************************)
DigitChar == <<"0", "1", "2", "3", "4", "5", "6", "7", "8", "9">>

RECURSIVE Digits(_)
Digits(n) ==
    IF n < 10 THEN <<DigitChar[n + 1]>>
    ELSE Digits(n \div 10) \o <<DigitChar[(n % 10) + 1]>>

\* server.base_url = "http://localhost:%i" % server._port
BaseUrl(port) == <<"http://localhost:">> \o Digits(port)

(***************************************************************************)
(* Paths: sequences of characters                                          *)
(***************************************************************************)
\* the directory pytest is started in (the repository root)
Root == <<"/", "r">>
\* what ~ expands to outside the sandbox
Home == <<"/", "h">>
\* the directories CliRunner().isolated_filesystem() creates for the two fixtures
NetrcTmp == <<"/", "t", "1">>
SettingsTmp == <<"/", "t", "2">>
\* the directory runner.isolated_filesystem() creates for git_repo
GitTmp == <<"/", "t", "3">>
\* some other directory a test may change to
Elsewhere == <<"/", "e">>

\* line 151: os.path.join(root, "tests", "logs", test_name)
TestDirPath == Root \o <<"/", "l">>

(***************************************************************************)
(* The Context store of the server process (GET, PUT, DELETE /ctx)         *)
(***************************************************************************)
EmptyCtx == {}
Payloads == {{<<"a", 1>>}, {<<"k8s", 1>>}}

CtxPut(c, p) == {kv \in c : \A q \in p : q[1] # kv[1]} \cup p
CtxDelete(c) == EmptyCtx

(***************************************************************************)
(* Attributes of modules and classes the fixtures assign or patch          *)
(***************************************************************************)
AttrKeys == {"os.path.expanduser", "_WandbSetup._instance", "_WandbSetup.instance",
             "wandb._IS_INTERNAL_PROCESS", "wandb_run.EXIT_TIMEOUT", "wandb.run",
             "click.launch", "whaaaaat.prompt", "webbrowser.open_new_tab",
             "Settings._global_path", "apikey.isatty", "apikey.input",
             "apikey.getpass", "wandb_init.Backend",
             "wandb.jupyter.get_ipython", "wandb_settings._get_python_type",
             "wandb.util.get_module", "wandb.__version__"}

InitAttrs ==
    [k \in AttrKeys |->
        CASE k \in {"_WandbSetup._instance", "wandb.run"} -> "None"
          [] k = "_WandbSetup.instance" -> "<no attribute>"
          [] OTHER -> "orig"]

\* setattr on every key of a sequence of <<key, value>> pairs, in order
RECURSIVE SetAll(_, _)
SetAll(f, kvs) ==
    IF kvs = <<>> THEN f
    ELSE SetAll([f EXCEPT ![Head(kvs)[1]] = Head(kvs)[2]], Tail(kvs))

\* the undo list of monkeypatch / mocker for a sequence of patches
RECURSIVE Saved(_, _)
Saved(f, kvs) ==
    IF kvs = <<>> THEN <<>>
    ELSE <<<<Head(kvs)[1], f[Head(kvs)[1]]>>>> \o Saved(f, Tail(kvs))

Reverse(s) == [j \in 1..Len(s) |-> s[Len(s) + 1 - j]]

(***************************************************************************)
(* wandb/integration/kfp/kfp_patch.py                                      *)
(***************************************************************************)
\* calls of patch / patch_kfp and of create_component_from_func one run makes
MaxPatchCalls == 3
MaxCreateCalls == 2

KfpModules == {"kfp.components", "kfp.components._python_op"}
KfpFuncs == {"create_component_from_func", "_get_function_source_definition"}

\* attribute names: func.__name__ and f"orig_{func.__name__}"
NameOf(func) == <<func>>
OrigNameOf(func) == <<"orig_", func>>
KfpAttrNames == {NameOf(f) : f \in KfpFuncs} \cup {OrigNameOf(f) : f \in KfpFuncs}

NoAttr == "<no attribute>"
NoList == <<"<None>">>

\* the kfp modules as imported, wandb.patched empty, and the list a caller holds
\* (pkgs: the list object now; first: its contents before any call)
KfpStart(callerList) ==
    [attr |-> [m \in KfpModules |->
                 [a \in KfpAttrNames |-> IF Len(a) = 1 THEN "kfp" ELSE NoAttr]],
     patched |-> [m \in KfpModules |-> [has |-> FALSE, list |-> <<>>]],
     patchCalls |-> 0,
     lastOp |-> <<"none">>,
     pkgs |-> callerList,
     first |-> callerList,
     createCalls |-> 0,
     passed |-> NoList,
     given |-> NoList,
     result |-> "none"]

\* lines 16-19: the module's attributes and wandb.patched after patch(func, module)
PatchedAttr(attr, func, m) ==
    [attr EXCEPT ![m] = [@ EXCEPT ![OrigNameOf(func)] = attr[m][NameOf(func)],
                                  ![NameOf(func)] = "wandb"]]
PatchedList(patched, func, m) ==
    [patched EXCEPT ![m] = [has |-> TRUE, list |-> Append(@.list, <<m, func>>)]]

\* lines 23-24: setattr(module, func, getattr(module, f"orig_{func}")) for each entry
RECURSIVE Restored(_, _)
Restored(attr, entries) ==
    IF entries = <<>> THEN attr
    ELSE LET m == Head(entries)[1]
             f == Head(entries)[2]
         IN  Restored([attr EXCEPT ![m] = [@ EXCEPT ![NameOf(f)] = attr[m][OrigNameOf(f)]]],
                      Tail(entries))

\* lines 15-19: patch(func, module)
Patch ==
    /\ pc = "kfp"
    /\ kfp.patchCalls < MaxPatchCalls
    /\ \E func \in KfpFuncs, m \in KfpModules :
          kfp' = [kfp EXCEPT !.attr = PatchedAttr(kfp.attr, func, m),
                             !.patched = PatchedList(kfp.patched, func, m),
                             !.patchCalls = @ + 1,
                             !.lastOp = <<"patch", m>>]
    /\ UNCHANGED <<pc, environ, child, atexit, hist>>
    /\ UNCHANGED startVars
    /\ UNCHANGED testVars

\* lines 28-33: patch_kfp()
PatchKfp ==
    /\ pc = "kfp"
    /\ kfp.patchCalls < MaxPatchCalls
    /\ LET f1 == "create_component_from_func"
           m1 == "kfp.components"
           f2 == "_get_function_source_definition"
           m2 == "kfp.components._python_op"
       IN  kfp' = [kfp EXCEPT
                     !.attr = PatchedAttr(PatchedAttr(kfp.attr, f1, m1), f2, m2),
                     !.patched = PatchedList(PatchedList(kfp.patched, f1, m1), f2, m2),
                     !.patchCalls = @ + 1,
                     !.lastOp = <<"patch_kfp">>]
    /\ UNCHANGED <<pc, environ, child, atexit, hist>>
    /\ UNCHANGED startVars
    /\ UNCHANGED testVars

\* lines 22-25: unpatch(module); wandb.patched[module.__name__] raises KeyError
\* for a module that was never patched
Unpatch ==
    /\ pc = "kfp"
    /\ \E m \in KfpModules :
          IF kfp.patched[m].has
          THEN kfp' = [kfp EXCEPT !.attr = Restored(kfp.attr, kfp.patched[m].list),
                                  !.patched = [@ EXCEPT ![m] = [has |-> TRUE, list |-> <<>>]],
                                  !.lastOp = <<"unpatch", m>>]
          ELSE kfp' = [kfp EXCEPT !.lastOp = <<"unpatch KeyError", m>>]
    /\ UNCHANGED <<pc, environ, child, atexit, hist>>
    /\ UNCHANGED startVars
    /\ UNCHANGED testVars

\* line 161: packages_to_install += ["wandb"]: a list is extended in place,
\* None raises TypeError
PlusWandb(packages) ==
    IF packages = NoList THEN [raised |-> TRUE, list |-> NoList]
    ELSE [raised |-> FALSE, list |-> Append(packages, "wandb")]

\* lines 61-68, 161-175: create_component_from_func(func) with packages_to_install
\* left at its default, or with the caller's list passed
CreateComponent ==
    /\ pc = "kfp"
    /\ kfp.createCalls < MaxCreateCalls
    /\ \E useDefault \in BOOLEAN :
          LET arg == IF useDefault THEN NoList ELSE kfp.pkgs
              r == PlusWandb(arg)
          IN  kfp' = [kfp EXCEPT
                        !.createCalls = @ + 1,
                        !.given = arg,
                        !.pkgs = IF useDefault \/ r.raised THEN @ ELSE r.list,
                        !.passed = IF r.raised THEN NoList ELSE r.list,
                        !.result = IF r.raised THEN "TypeError" ELSE "task factory",
                        !.lastOp = <<"create", IF useDefault THEN "default" ELSE "list">>]
    /\ UNCHANGED <<pc, environ, child, atexit, hist>>
    /\ UNCHANGED startVars
    /\ UNCHANGED testVars

(***************************************************************************)
(* start_mock_server                                                       *)
(***************************************************************************)
NoTest == [requested |-> <<>>, plan |-> <<>>, pos |-> 0, setupFailed |-> FALSE,
           outcome |-> "none", fresh |-> FALSE, moved |-> FALSE, phases |-> <<>>]
NoLocals == [netrc_cwd |-> <<>>, netrc_root |-> <<>>, origexpand |-> "orig",
             settings_cwd |-> <<>>, orig_dir |-> <<>>, mp_undo |-> <<>>,
             mocker_undo |-> <<>>, args_env |-> <<>>, git_cwd |-> <<>>,
             orig_get_ipython |-> "orig", save_current_version |-> "orig"]
InitPoll == [attempts |-> 0, slept |-> FALSE, gap |-> "none", aliveAtPrev |-> FALSE,
             okAttempt |-> 0, earlyExit |-> FALSE]

Init ==
    /\ pc = "boot"
    /\ \E pre \in SUBSET PreKeys :
          environ = [k \in EnvKeys |-> IF k \in pre THEN <<"pre">> ELSE Absent]
    /\ server = NoServer
    /\ child = [status |-> "none", envPort |-> <<>>]
    /\ i = 0
    /\ started = FALSE
    /\ poll = InitPoll
    /\ failSteps = <<>>
    /\ atexit = FALSE
    /\ ctx = EmptyCtx
    /\ attrs = InitAttrs
    /\ cwd = Root
    /\ testNo = 0
    /\ test = NoTest
    /\ locals = NoLocals
    /\ before = [environ |-> environ, cwd |-> Root, attrs |-> InitAttrs, ctx |-> EmptyCtx]
    /\ log = <<>>
    /\ kfp = KfpStart(NoList)
    /\ hist = <<>>

\* lines 68-98: pick a port, export PORT and PYTHONPATH (env is os.environ itself,
\* not a copy), spawn the child, build the handle
Spawn ==
    /\ pc = "boot"
    /\ \E port \in FreePorts :
          /\ environ' = [environ EXCEPT !["PORT"] = Digits(port),
                                        !["PYTHONPATH"] = Root]
          /\ child' = [status |-> "alive", envPort |-> Digits(port)]
          /\ server' = [port |-> port, base_url |-> BaseUrl(port),
                        methods |-> {"get_ctx", "set_ctx", "reset_ctx"}]
    /\ pc' = "poll"
    /\ UNCHANGED <<i, started, poll, failSteps, atexit>>
    /\ UNCHANGED testVars
    /\ UNCHANGED sideVars

\* the child process ends on its own (crash, import error, port clash)
ChildExit ==
    /\ child.status = "alive"
    /\ pc \in {"poll", "after_loop", "returned", "idle", "setup", "body", "teardown"}
    /\ child' = [child EXCEPT !.status = "exited"]
    /\ poll' = [poll EXCEPT !.earlyExit = @ \/ (pc \in {"poll", "after_loop"} /\ ~started)]
    /\ UNCHANGED <<pc, environ, server, i, started, failSteps, atexit>>
    /\ UNCHANGED testVars
    /\ UNCHANGED sideVars

\* bookkeeping of one requests.get of the poll: whether a sleep separates it from
\* the attempt before it, when the child was alive at both
Requested ==
    [poll EXCEPT !.attempts = @ + 1,
                 !.gap = IF poll.attempts = 0 \/ ~poll.aliveAtPrev
                            \/ child.status # "alive" THEN "none"
                         ELSE IF poll.slept THEN "slept" ELSE "immediate",
                 !.slept = FALSE,
                 !.aliveAtPrev = (child.status = "alive")]

InRangeInclusive(n) == n <= MaxAttempts

\* line 101: for i in range(10) has another round to run
InRange(n) == n < MaxAttempts

TerminateNothing(status) == status

\* lines 59 and 122: server.terminate() ends a child that is still running
Terminate(status) == IF status = "alive" THEN "terminated" ELSE status

StatusOkAny(code) == TRUE

\* line 104: res.status_code == 200
StatusOk(code) == code = 200

\* lines 103-107: the request answered
AttemptAnswered ==
    /\ pc = "poll"
    /\ InRange(i)
    /\ child.status = "alive"
    /\ \E code \in {200, 404, 500} :
          IF StatusOk(code)
          THEN /\ started' = TRUE
               /\ pc' = "after_loop"
               /\ poll' = [Requested EXCEPT !.okAttempt = IF code = 200 THEN i + 1 ELSE @]
               /\ i' = i
          ELSE /\ started' = started
               /\ pc' = "poll"
               /\ poll' = Requested
               /\ i' = i + 1
    /\ UNCHANGED <<environ, server, child, failSteps, atexit>>
    /\ UNCHANGED testVars
    /\ UNCHANGED sideVars

\* lines 108-113: the request raised and the child is alive: sleep(1)
AttemptFailedAlive ==
    /\ pc = "poll"
    /\ InRange(i)
    /\ child.status = "alive"
    /\ poll' = [Requested EXCEPT !.slept = TRUE]
    /\ i' = i + 1
    /\ UNCHANGED <<pc, environ, server, child, started, failSteps, atexit>>
    /\ UNCHANGED testVars
    /\ UNCHANGED sideVars

\* lines 108-115: the request raised and server.poll() shows the child gone
AttemptFailedDead ==
    /\ pc = "poll"
    /\ InRange(i)
    /\ child.status # "alive"
    /\ poll' = Requested
    /\ failSteps' = <<"raise">>
    /\ pc' = "raised"
    /\ UNCHANGED <<environ, server, child, i, started, atexit>>
    /\ UNCHANGED testVars
    /\ UNCHANGED sideVars

\* line 101: range(10) is used up
LoopExhausted ==
    /\ pc = "poll"
    /\ ~InRange(i)
    /\ pc' = "after_loop"
    /\ UNCHANGED <<environ, server, child, i, started, poll, failSteps, atexit>>
    /\ UNCHANGED testVars
    /\ UNCHANGED sideVars

AfterLoopAlwaysReturn(isStarted) == "returned"

\* lines 116-133: how start_mock_server leaves after the loop
AfterLoop(isStarted) == IF isStarted THEN "returned" ELSE "raised"

\* lines 116-120, 133: return server
Return ==
    /\ pc = "after_loop"
    /\ AfterLoop(started) = "returned"
    /\ pc' = "returned"
    /\ UNCHANGED <<environ, server, child, i, started, poll, failSteps, atexit>>
    /\ UNCHANGED testVars
    /\ UNCHANGED sideVars

\* lines 121-132: terminate, dump the log, raise
FailAfterLoop ==
    /\ pc = "after_loop"
    /\ AfterLoop(started) = "raised"
    /\ child' = [child EXCEPT !.status = Terminate(@)]
    /\ failSteps' = <<"terminate", "dump", "raise">>
    /\ pc' = "raised"
    /\ UNCHANGED <<environ, server, i, started, poll, atexit>>
    /\ UNCHANGED testVars
    /\ UNCHANGED sideVars

\* line 137: atexit.register(test_cleanup); the locals of start_mock_server are gone
RegisterCleanup ==
    /\ pc = "returned"
    /\ atexit' = TRUE
    /\ i' = 0
    /\ started' = FALSE
    /\ poll' = InitPoll
    /\ pc' = "idle"
    /\ UNCHANGED <<environ, server, child, failSteps>>
    /\ UNCHANGED testVars
    /\ UNCHANGED sideVars

\* lines 56-62: test_cleanup, run by atexit when the session ends
TestCleanup ==
    /\ pc = "idle"
    /\ atexit
    /\ child' = [child EXCEPT !.status = Terminate(@)]
    /\ pc' = "exited"
    /\ UNCHANGED <<environ, server, i, started, poll, failSteps, atexit>>
    /\ UNCHANGED testVars
    /\ UNCHANGED sideVars

(***************************************************************************)
(* The handle's three Context calls (lines 87-94)                          *)
(***************************************************************************)
\* calls one client makes
MaxHist == 6

\* the HTTP method each call uses
GetCtxMethod == "GET"
SetCtxMethod == "PUT"
ResetCtxMethodGet == "GET"
ResetCtxMethod == "DELETE"

\* what the server does with a request to /ctx, and the Context it answers with
Served(method, c, payload) ==
    CASE method = "GET" -> c
      [] method = "PUT" -> CtxPut(c, payload)
      [] method = "DELETE" -> CtxDelete(c)

\* line 88: server.get_ctx()
ClientGetCtx ==
    /\ pc = "client"
    /\ Len(hist) < MaxHist
    /\ ctx' = Served(GetCtxMethod, ctx, EmptyCtx)
    /\ hist' = Append(hist, <<"get_ctx", ctx'>>)
    /\ UNCHANGED <<pc, environ, child, atexit, attrs, cwd, testNo, test, locals, before,
                   log, kfp>>
    /\ UNCHANGED startVars

\* line 91: server.set_ctx(payload)
ClientSetCtx ==
    /\ pc = "client"
    /\ Len(hist) < MaxHist
    /\ \E payload \in Payloads :
          /\ ctx' = Served(SetCtxMethod, ctx, payload)
          /\ hist' = Append(hist, <<"set_ctx", payload>>)
    /\ UNCHANGED <<pc, environ, child, atexit, attrs, cwd, testNo, test, locals, before,
                   log, kfp>>
    /\ UNCHANGED startVars

\* line 94: server.reset_ctx()
ClientResetCtx ==
    /\ pc = "client"
    /\ Len(hist) < MaxHist
    /\ ctx' = Served(ResetCtxMethod, ctx, EmptyCtx)
    /\ hist' = Append(hist, <<"reset_ctx", EmptyCtx>>)
    /\ UNCHANGED <<pc, environ, child, atexit, attrs, cwd, testNo, test, locals, before,
                   log, kfp>>
    /\ UNCHANGED startVars

(***************************************************************************)
(* pytest: which fixtures a test gets, and in which order they are set up  *)
(***************************************************************************)
TestSettingsDepsNoServer == <<"test_dir", "mocker">>
TestSettingsDepsServerFirst == <<"live_mock_server", "test_dir", "mocker">>

\* line 195: def test_settings(test_dir, mocker, live_mock_server)
TestSettingsDeps == <<"test_dir", "mocker", "live_mock_server">>

\* the parameters of each fixture function (request is pytest's own object)
Deps(f) ==
    CASE f = "test_dir" -> <<"test_name">>
      [] f = "test_settings" -> TestSettingsDeps
      [] f = "mocked_run" -> <<"runner", "test_settings">>
      [] f = "runner" -> <<"monkeypatch", "mocker">>
      [] f = "local_netrc" -> <<"monkeypatch">>
      [] f = "local_settings" -> <<"mocker">>
      [] f = "mock_server" -> <<"mocker">>
      [] f = "wandb_init_run" -> <<"runner", "mocker", "mock_server">>
      [] f = "git_repo" -> <<"runner">>
      [] f = "mocked_module" -> <<"monkeypatch">>
      [] f = "mocked_ipython" -> <<"monkeypatch">>
      [] OTHER -> <<>>

\* the fixtures declared autouse=True, in the order pytest collects them
Autouse == <<"local_netrc", "local_settings", "reset_setup">>

\* what a test function may name as its parameters
TestKinds == {<<>>, <<"live_mock_server">>, <<"test_dir">>, <<"test_settings">>,
              <<"mocked_run">>, <<"wandb_init_run">>, <<"disable_console">>,
              <<"git_repo">>, <<"mocked_module">>, <<"mocked_ipython">>,
              <<"restore_version">>}

InSeq(x, s) == \E j \in 1..Len(s) : s[j] = x

\* each fixture is set up once, after the fixtures it names
RECURSIVE Visit(_, _), VisitAll(_, _)
Visit(f, done) ==
    IF InSeq(f, done) THEN done
    ELSE LET d == VisitAll(Deps(f), done)
         IN  IF InSeq(f, d) THEN d ELSE Append(d, f)
VisitAll(fs, done) ==
    IF fs = <<>> THEN done ELSE VisitAll(Tail(fs), Visit(Head(fs), done))

Plan(requested) == VisitAll(Autouse \o requested, <<>>)

\* the fixture whose setup is next, and the one whose teardown is next
NextFixture == test.plan[test.pos + 1]
CurFixture == test.plan[test.pos]
IsUp(f) == \E j \in 1..test.pos : test.plan[j] = f

InSetup(f) == pc = "setup" /\ test.pos < Len(test.plan) /\ NextFixture = f
InTeardown(f) == pc = "teardown" /\ test.pos > 0 /\ CurFixture = f

\* the phases of one test's life that a fixture's setup and teardown stand for:
\* test_dir enters and leaves the test's directory (lines 155, 157),
\* live_mock_server exports the variables, then resets the Context (296-301),
\* and deletes the variables (303-306); test_settings yields the resource (218)
PhasesOfSetup(f) ==
    CASE f = "test_dir" -> <<"SANDBOX_ENTERED">>
      [] f = "live_mock_server" -> <<"ENV_PATCHED", "SERVER_CONTEXT_RESET">>
      [] f = "test_settings" -> <<"RESOURCE_READY">>
      [] OTHER -> <<>>
PhasesOfFailedSetup(f) ==
    IF f = "live_mock_server" THEN <<"ENV_PATCHED">> ELSE <<>>
PhasesOfTeardown(f) ==
    CASE f = "test_dir" -> <<"SANDBOX_EXITED">>
      [] f = "live_mock_server" -> <<"ENV_RESTORED">>
      [] f = "test_settings" -> <<"RESOURCE_TORN_DOWN">>
      [] OTHER -> <<>>

SetupDone(f) ==
    /\ test' = [test EXCEPT !.pos = @ + 1,
                            !.fresh = (test.pos + 1 = Len(test.plan)),
                            !.phases = @ \o PhasesOfSetup(f)]
    /\ log' = Append(log, <<"setup", f, "ok">>)
    /\ pc' = IF test.pos + 1 = Len(test.plan) THEN "body" ELSE "setup"

\* the fixture raised before its yield: the test errors, what was set up is torn down
SetupFailed(f) ==
    /\ test' = [test EXCEPT !.setupFailed = TRUE,
                            !.phases = @ \o PhasesOfFailedSetup(f)]
    /\ log' = Append(log, <<"setup", f, "raised">>)
    /\ pc' = "teardown"

\* the same, for a fixture whose finally block ran as the exception left it
SetupFailedFinally(f, how) ==
    /\ test' = [test EXCEPT !.setupFailed = TRUE]
    /\ log' = log \o <<<<"setup", f, "raised">>, <<"finally", f, how>>>>
    /\ pc' = "teardown"

TeardownDone(f, how) ==
    /\ test' = [test EXCEPT !.pos = @ - 1,
                            !.phases = @ \o PhasesOfTeardown(f)]
    /\ log' = Append(log, <<"teardown", f, how>>)
    /\ pc' = "teardown"

\* pytest picks the next test and resolves its fixtures
TestStart ==
    /\ pc = "idle"
    /\ testNo < MaxTests
    /\ \E req \in TestKinds :
          test' = [requested |-> req, plan |-> Plan(req), pos |-> 0,
                   setupFailed |-> FALSE, outcome |-> "none", fresh |-> FALSE,
                   moved |-> FALSE, phases |-> <<>>]
    /\ before' = [environ |-> environ, cwd |-> cwd, attrs |-> attrs, ctx |-> ctx]
    /\ log' = <<>>
    /\ locals' = NoLocals
    /\ pc' = "setup"
    /\ UNCHANGED <<environ, child, atexit, ctx, attrs, cwd, testNo>>
    /\ UNCHANGED startVars
    /\ UNCHANGED sideVars

\* every finalizer has run: the test is over
TestEnd ==
    /\ pc = "teardown"
    /\ test.pos = 0
    /\ testNo' = testNo + 1
    /\ pc' = "idle"
    /\ UNCHANGED <<environ, child, atexit, ctx, attrs, cwd, test, locals, before, log>>
    /\ UNCHANGED startVars
    /\ UNCHANGED sideVars

(***************************************************************************)
(* os.path.expanduser and the replacement local_netrc installs             *)
(***************************************************************************)
Marker == <<"n", "e", "t", "r", "c">>

\* "netrc" in path
Contains(s, m) ==
    \E j \in 1..(Len(s) - Len(m) + 1) : SubSeq(s, j, j + Len(m) - 1) = m

\* os.path.expanduser: a leading ~ becomes the home directory
OrigExpand(path) ==
    IF Len(path) >= 1 /\ path[1] = "~" /\ (Len(path) = 1 \/ path[2] = "/")
    THEN Home \o Tail(path)
    ELSE path

\* os.path.realpath of a relative name: resolved against the current directory
Realpath(dir, rel) == dir \o <<"/">> \o rel

\* lines 269-270: expand(path)
Expand(dir, path) ==
    IF Contains(path, Marker) THEN Realpath(dir, Marker) ELSE OrigExpand(path)

\* a call of os.path.expanduser(path) with the process in directory dir
Expanduser(impl, dir, path) ==
    IF impl = "expand" THEN Expand(dir, path) ELSE OrigExpand(path)

\* p lies below directory root
InDir(p, root) ==
    /\ Len(p) > Len(root) + 1
    /\ SubSeq(p, 1, Len(root)) = root
    /\ p[Len(root) + 1] = "/"

\* paths a test (or the SDK under test) may ask to expand
SamplePaths == {<<"~", "/", ".", "n", "e", "t", "r", "c">>,
                <<"~", "/", "_", "n", "e", "t", "r", "c">>,
                <<"/", "e", "/", "n", "e", "t", "r", "c", ".", "b">>,
                <<"~", "/", ".", "c">>,
                <<"~">>,
                <<"n", "e", "t">>,
                <<"/", "e", "/", "x">>}

(***************************************************************************)
(* Fixtures: setup                                                         *)
(***************************************************************************)
\* pytest's monkeypatch and pytest-mock's mocker start with nothing to undo
Setup_monkeypatch ==
    /\ InSetup("monkeypatch")
    /\ locals' = [locals EXCEPT !.mp_undo = <<>>]
    /\ SetupDone("monkeypatch")
    /\ UNCHANGED <<environ, child, atexit, ctx, attrs, cwd, testNo, before>>
    /\ UNCHANGED startVars
    /\ UNCHANGED sideVars

Setup_mocker ==
    /\ InSetup("mocker")
    /\ locals' = [locals EXCEPT !.mocker_undo = <<>>]
    /\ SetupDone("mocker")
    /\ UNCHANGED <<environ, child, atexit, ctx, attrs, cwd, testNo, before>>
    /\ UNCHANGED startVars
    /\ UNCHANGED sideVars

\* fixtures that touch nothing modelled here: test_name (lines 140-144),
\* mock_server (286-288), mocked_run up to its yield (224-229), and
\* mocked_module (353-370), which only hands the test a function to call
PlainFixtures == {"test_name", "mock_server", "mocked_run", "mocked_module"}

Setup_plain ==
    /\ \E f \in PlainFixtures :
          /\ InSetup(f)
          /\ SetupDone(f)
    /\ UNCHANGED <<environ, child, atexit, ctx, attrs, cwd, testNo, locals, before>>
    /\ UNCHANGED startVars
    /\ UNCHANGED sideVars

\* lines 255-257
Setup_reset_setup ==
    /\ InSetup("reset_setup")
    /\ attrs' = [attrs EXCEPT !["_WandbSetup._instance"] = "None"]
    /\ SetupDone("reset_setup")
    /\ UNCHANGED <<environ, child, atexit, ctx, cwd, testNo, locals, before>>
    /\ UNCHANGED startVars
    /\ UNCHANGED sideVars

\* lines 260-273, up to the yield
Setup_local_netrc ==
    /\ InSetup("local_netrc")
    /\ cwd' = NetrcTmp
    /\ attrs' = [attrs EXCEPT !["os.path.expanduser"] = "expand"]
    /\ locals' = [locals EXCEPT
                    !.netrc_cwd = cwd,
                    !.netrc_root = NetrcTmp,
                    !.origexpand = attrs["os.path.expanduser"],
                    !.mp_undo = @ \o <<<<"os.path.expanduser", attrs["os.path.expanduser"]>>>>]
    /\ SetupDone("local_netrc")
    /\ UNCHANGED <<environ, child, atexit, ctx, testNo, before>>
    /\ UNCHANGED startVars
    /\ UNCHANGED sideVars

\* lines 276-283, up to the yield
Setup_local_settings ==
    /\ InSetup("local_settings")
    /\ cwd' = SettingsTmp
    /\ attrs' = [attrs EXCEPT !["Settings._global_path"] = "mock"]
    /\ locals' = [locals EXCEPT
                    !.settings_cwd = cwd,
                    !.mocker_undo = @ \o <<<<"Settings._global_path", attrs["Settings._global_path"]>>>>]
    /\ SetupDone("local_settings")
    /\ UNCHANGED <<environ, child, atexit, ctx, testNo, before>>
    /\ UNCHANGED startVars
    /\ UNCHANGED sideVars

RunnerMonkeypatches == <<<<"click.launch", "lambda">>, <<"whaaaaat.prompt", "lambda">>,
                         <<"webbrowser.open_new_tab", "lambda">>>>
RunnerMocks == <<<<"apikey.isatty", "mock">>, <<"apikey.input", "mock">>,
                 <<"apikey.getpass", "mock">>>>

\* lines 232-252
Setup_runner ==
    /\ InSetup("runner")
    /\ attrs' = SetAll(SetAll(attrs, RunnerMonkeypatches), RunnerMocks)
    /\ locals' = [locals EXCEPT
                    !.mp_undo = @ \o Saved(attrs, RunnerMonkeypatches),
                    !.mocker_undo = @ \o Saved(attrs, RunnerMocks)]
    /\ SetupDone("runner")
    /\ UNCHANGED <<environ, child, atexit, ctx, cwd, testNo, before>>
    /\ UNCHANGED startVars
    /\ UNCHANGED sideVars

\* lines 147-156
Setup_test_dir ==
    /\ InSetup("test_dir")
    /\ locals' = [locals EXCEPT !.orig_dir = cwd]
    /\ cwd' = TestDirPath
    /\ SetupDone("test_dir")
    /\ UNCHANGED <<environ, child, atexit, ctx, attrs, testNo, before>>
    /\ UNCHANGED startVars
    /\ UNCHANGED sideVars

\* lines 296-299: the variables live_mock_server exports
LiveMockServerEnv ==
    <<<<"WANDB_USERNAME", <<"test">>>>, <<"WANDB_BASE_URL", server.base_url>>,
      <<"WANDB_ERROR_REPORTING", <<"false">>>>, <<"WANDB_API_KEY", <<DUMMY_API_KEY>>>>>>

LiveMockServerCtxKept(c) == c

\* line 301: server.reset_ctx()
LiveMockServerCtx(c) == CtxDelete(c)

\* lines 291-302: export the variables, reset the Context, yield; a request to a
\* server that is gone raises, and nothing after line 301 runs
Setup_live_mock_server ==
    /\ InSetup("live_mock_server")
    /\ environ' = SetAll(environ, LiveMockServerEnv)
    /\ IF child.status = "alive"
       THEN /\ ctx' = LiveMockServerCtx(ctx)
            /\ SetupDone("live_mock_server")
       ELSE /\ ctx' = ctx
            /\ SetupFailed("live_mock_server")
    /\ UNCHANGED <<child, atexit, attrs, cwd, testNo, locals, before>>
    /\ UNCHANGED startVars
    /\ UNCHANGED sideVars

TestSettingsAssignments ==
    <<<<"wandb._IS_INTERNAL_PROCESS", "False">>, <<"wandb_run.EXIT_TIMEOUT", "15">>,
      <<"_WandbSetup.instance", "None">>>>

\* lines 195-218
Setup_test_settings ==
    /\ InSetup("test_settings")
    /\ attrs' = SetAll(attrs, TestSettingsAssignments)
    /\ SetupDone("test_settings")
    /\ UNCHANGED <<environ, child, atexit, ctx, cwd, testNo, locals, before>>
    /\ UNCHANGED startVars
    /\ UNCHANGED sideVars

\* a value that is not a str: os.environ[k] = v raises TypeError for it
NotStr == <<"<not a str>">>

\* what @pytest.mark.wandb_args(env=...) may carry
ArgsEnvChoices == {<<>>,
                   <<<<"USERKEY", <<"injected">>>>>>,
                   <<<<"USERKEY", <<"injected">>>>, <<"LANG", NotStr>>>>}

\* what utils.mock_k8s and utils.mock_sagemaker hand back for args["env"]
K8sEnv == <<<<"KUBERNETES_SERVICE_HOST", <<"k8s">>>>>>
SagemakerEnv == <<<<"TRAINING_JOB_NAME", <<"sage">>>>>>

\* lines 405-410: args["env"] as mocks_from_args leaves it, when it returns
\* (failing = "none") and when one of the two mocks raises
MocksFromArgs(env, k8s, sagemaker, failing) ==
    LET afterK8s == IF k8s /\ failing # "k8s" THEN env \o K8sEnv ELSE env
    IN  IF failing = "k8s" THEN env
        ELSE IF sagemaker /\ failing # "sagemaker" THEN afterK8s \o SagemakerEnv
        ELSE afterK8s

Keys(kvs) == [j \in 1..Len(kvs) |-> kvs[j][1]]

\* lines 421-422: os.environ[k] = v for each pair in turn, up to the first
\* value that is not a str
RECURSIVE SetEnvAll(_, _)
SetEnvAll(env, kvs) ==
    IF kvs = <<>> THEN [env |-> env, how |-> "ok"]
    ELSE IF Head(kvs)[2] = NotStr THEN [env |-> env, how |-> "raised"]
    ELSE SetEnvAll([env EXCEPT ![Head(kvs)[1]] = Head(kvs)[2]], Tail(kvs))

\* del os.environ[k] for each key in turn; a key that is not set raises KeyError
RECURSIVE DelAll(_, _)
DelAll(env, keys) ==
    IF keys = <<>> THEN [env |-> env, how |-> "ok"]
    ELSE IF env[Head(keys)] = Absent THEN [env |-> env, how |-> "raised"]
    ELSE DelAll([env EXCEPT ![Head(keys)] = Absent], Tail(keys))

WandbInitFailures == {"none", "k8s", "sagemaker", "init"}

\* lines 413-432 and, when anything inside the try raises, the finally of
\* 434-437 that runs as the exception leaves the fixture
Setup_wandb_init_run ==
    /\ InSetup("wandb_init_run")
    /\ \E env \in ArgsEnvChoices, k8s \in BOOLEAN, sagemaker \in BOOLEAN,
          failing \in WandbInitFailures, inst \in {"None", "obj"} :
          /\ failing = "k8s" => k8s
          /\ failing = "sagemaker" => sagemaker
          /\ LET argsEnv == MocksFromArgs(env, k8s, sagemaker, failing)
                 set == SetEnvAll(environ, argsEnv)
             IN  IF failing \in {"k8s", "sagemaker"}
                 THEN /\ inst = "None"
                      /\ locals' = [locals EXCEPT !.args_env = argsEnv]
                      /\ attrs' = [attrs EXCEPT !["wandb.run"] = "None"]
                      /\ LET r == DelAll(environ, Keys(argsEnv))
                         IN  /\ environ' = r.env
                             /\ SetupFailedFinally("wandb_init_run", r.how)
                 ELSE IF set.how = "raised"
                 THEN /\ inst = "None"
                      /\ locals' = [locals EXCEPT !.args_env = argsEnv]
                      /\ attrs' = [attrs EXCEPT !["wandb.run"] = "None"]
                      /\ LET r == DelAll(set.env, Keys(argsEnv))
                         IN  /\ environ' = r.env
                             /\ SetupFailedFinally("wandb_init_run", r.how)
                 ELSE IF failing = "init"
                 THEN /\ locals' = [locals EXCEPT
                                      !.args_env = argsEnv,
                                      !.mocker_undo = @ \o <<<<"wandb_init.Backend", attrs["wandb_init.Backend"]>>>>]
                      /\ attrs' = [attrs EXCEPT !["wandb._IS_INTERNAL_PROCESS"] = "False",
                                                !["_WandbSetup._instance"] = inst,
                                                !["wandb_init.Backend"] = "mock",
                                                !["wandb.run"] = "None"]
                      /\ LET r == DelAll(set.env, Keys(argsEnv))
                         IN  /\ environ' = r.env
                             /\ SetupFailedFinally("wandb_init_run", r.how)
                 ELSE /\ inst = "obj"
                      /\ locals' = [locals EXCEPT
                                      !.args_env = argsEnv,
                                      !.mocker_undo = @ \o <<<<"wandb_init.Backend", attrs["wandb_init.Backend"]>>>>]
                      /\ environ' = set.env
                      /\ attrs' = [attrs EXCEPT !["wandb._IS_INTERNAL_PROCESS"] = "False",
                                                !["_WandbSetup._instance"] = "obj",
                                                !["wandb_init.Backend"] = "mock",
                                                !["wandb.run"] = "run"]
                      /\ SetupDone("wandb_init_run")
    /\ UNCHANGED <<child, atexit, ctx, cwd, testNo, before>>
    /\ UNCHANGED startVars
    /\ UNCHANGED sideVars

\* lines 160-167: git_repo enters runner.isolated_filesystem()
Setup_git_repo ==
    /\ InSetup("git_repo")
    /\ locals' = [locals EXCEPT !.git_cwd = cwd]
    /\ cwd' = GitTmp
    /\ SetupDone("git_repo")
    /\ UNCHANGED <<environ, child, atexit, ctx, attrs, testNo, before>>
    /\ UNCHANGED startVars
    /\ UNCHANGED sideVars

\* lines 373-382
Setup_mocked_ipython ==
    /\ InSetup("mocked_ipython")
    /\ attrs' = [attrs EXCEPT !["wandb_settings._get_python_type"] = "lambda",
                              !["wandb.jupyter.get_ipython"] = "lambda"]
    /\ locals' = [locals EXCEPT
                    !.mp_undo = @ \o <<<<"wandb_settings._get_python_type",
                                         attrs["wandb_settings._get_python_type"]>>>>,
                    !.orig_get_ipython = attrs["wandb.jupyter.get_ipython"]]
    /\ SetupDone("mocked_ipython")
    /\ UNCHANGED <<environ, child, atexit, ctx, cwd, testNo, before>>
    /\ UNCHANGED startVars
    /\ UNCHANGED sideVars

\* lines 440-443
Setup_restore_version ==
    /\ InSetup("restore_version")
    /\ locals' = [locals EXCEPT !.save_current_version = attrs["wandb.__version__"]]
    /\ SetupDone("restore_version")
    /\ UNCHANGED <<environ, child, atexit, ctx, attrs, cwd, testNo, before>>
    /\ UNCHANGED startVars
    /\ UNCHANGED sideVars

\* lines 451-454
Setup_disable_console ==
    /\ InSetup("disable_console")
    /\ environ' = [environ EXCEPT !["WANDB_CONSOLE"] = <<"off">>]
    /\ SetupDone("disable_console")
    /\ UNCHANGED <<child, atexit, ctx, attrs, cwd, testNo, locals, before>>
    /\ UNCHANGED startVars
    /\ UNCHANGED sideVars

(***************************************************************************)
(* The test body                                                           *)
(***************************************************************************)
\* the test writes to the Context through the handle the fixture gave it
BodySetCtx ==
    /\ pc = "body"
    /\ IsUp("live_mock_server")
    /\ child.status = "alive"
    /\ \E p \in Payloads : ctx' = CtxPut(ctx, p)
    /\ test' = [test EXCEPT !.fresh = FALSE]
    /\ UNCHANGED <<pc, environ, child, atexit, attrs, cwd, testNo, locals, before, log>>
    /\ UNCHANGED startVars
    /\ UNCHANGED sideVars

\* the test (or the SDK call it makes) creates the setup singleton
BodyInitSetup ==
    /\ pc = "body"
    /\ attrs["_WandbSetup._instance"] = "None"
    /\ attrs' = [attrs EXCEPT !["_WandbSetup._instance"] = "obj"]
    /\ test' = [test EXCEPT !.fresh = FALSE]
    /\ UNCHANGED <<pc, environ, child, atexit, ctx, cwd, testNo, locals, before, log>>
    /\ UNCHANGED startVars
    /\ UNCHANGED sideVars

\* the test changes the working directory
BodyChdir ==
    /\ pc = "body"
    /\ ~test.moved
    /\ cwd' = Elsewhere
    /\ test' = [test EXCEPT !.fresh = FALSE, !.moved = TRUE]
    /\ UNCHANGED <<pc, environ, child, atexit, ctx, attrs, testNo, locals, before, log>>
    /\ UNCHANGED startVars
    /\ UNCHANGED sideVars

\* lines 357-368: the test calls the function mocked_module gave it
BodyMockGetModule ==
    /\ pc = "body"
    /\ IsUp("mocked_module")
    /\ attrs["wandb.util.get_module"] = "orig"
    /\ attrs' = [attrs EXCEPT !["wandb.util.get_module"] = "get_module"]
    /\ locals' = [locals EXCEPT
                    !.mp_undo = @ \o <<<<"wandb.util.get_module", attrs["wandb.util.get_module"]>>>>]
    /\ test' = [test EXCEPT !.fresh = FALSE]
    /\ UNCHANGED <<pc, environ, child, atexit, ctx, cwd, testNo, before, log>>
    /\ UNCHANGED startVars
    /\ UNCHANGED sideVars

\* a test that asked for restore_version overwrites wandb.__version__
BodySetVersion ==
    /\ pc = "body"
    /\ IsUp("restore_version")
    /\ attrs["wandb.__version__"] = "orig"
    /\ attrs' = [attrs EXCEPT !["wandb.__version__"] = "0.0.1"]
    /\ test' = [test EXCEPT !.fresh = FALSE]
    /\ UNCHANGED <<pc, environ, child, atexit, ctx, cwd, testNo, locals, before, log>>
    /\ UNCHANGED startVars
    /\ UNCHANGED sideVars

\* the test passes, or raises: either way pytest goes on to the finalizers
BodyEnd ==
    /\ pc = "body"
    /\ \E out \in {"passed", "raised"} :
          test' = [test EXCEPT !.outcome = out, !.fresh = FALSE]
    /\ pc' = "teardown"
    /\ UNCHANGED <<environ, child, atexit, ctx, attrs, cwd, testNo, locals, before, log>>
    /\ UNCHANGED startVars
    /\ UNCHANGED sideVars

(***************************************************************************)
(* Fixtures: teardown (the code after the yield), run last-set-up first    *)
(***************************************************************************)
\* monkeypatch.undo(): the saved values are put back, last patch first
Teardown_monkeypatch ==
    /\ InTeardown("monkeypatch")
    /\ attrs' = SetAll(attrs, Reverse(locals.mp_undo))
    /\ locals' = [locals EXCEPT !.mp_undo = <<>>]
    /\ TeardownDone("monkeypatch", "ok")
    /\ UNCHANGED <<environ, child, atexit, ctx, cwd, testNo, before>>
    /\ UNCHANGED startVars
    /\ UNCHANGED sideVars

\* mocker.stopall()
Teardown_mocker ==
    /\ InTeardown("mocker")
    /\ attrs' = SetAll(attrs, Reverse(locals.mocker_undo))
    /\ locals' = [locals EXCEPT !.mocker_undo = <<>>]
    /\ TeardownDone("mocker", "ok")
    /\ UNCHANGED <<environ, child, atexit, ctx, cwd, testNo, before>>
    /\ UNCHANGED startVars
    /\ UNCHANGED sideVars

\* fixtures with nothing after their yield or return
NoTeardownFixtures == {"test_name", "mock_server", "mocked_run", "reset_setup", "runner",
                       "mocked_module"}

Teardown_plain ==
    /\ \E f \in NoTeardownFixtures :
          /\ InTeardown(f)
          /\ TeardownDone(f, "ok")
    /\ UNCHANGED <<environ, child, atexit, ctx, attrs, cwd, testNo, locals, before>>
    /\ UNCHANGED startVars
    /\ UNCHANGED sideVars

IsolatedExitStays(saved, current) == current

\* leaving runner.isolated_filesystem() (lines 263, 279, 163) changes back to
\* the directory saved on entry, wherever the process is by then
IsolatedExit(saved, current) == saved

Teardown_local_netrc ==
    /\ InTeardown("local_netrc")
    /\ cwd' = IsolatedExit(locals.netrc_cwd, cwd)
    /\ TeardownDone("local_netrc", "ok")
    /\ UNCHANGED <<environ, child, atexit, ctx, attrs, testNo, locals, before>>
    /\ UNCHANGED startVars
    /\ UNCHANGED sideVars

\* line 279
Teardown_local_settings ==
    /\ InTeardown("local_settings")
    /\ cwd' = IsolatedExit(locals.settings_cwd, cwd)
    /\ TeardownDone("local_settings", "ok")
    /\ UNCHANGED <<environ, child, atexit, ctx, attrs, testNo, locals, before>>
    /\ UNCHANGED startVars
    /\ UNCHANGED sideVars

\* line 157
Teardown_test_dir ==
    /\ InTeardown("test_dir")
    /\ cwd' = locals.orig_dir
    /\ TeardownDone("test_dir", "ok")
    /\ UNCHANGED <<environ, child, atexit, ctx, attrs, testNo, locals, before>>
    /\ UNCHANGED startVars
    /\ UNCHANGED sideVars

LiveMockServerDelKeysTwice ==
    <<"WANDB_USERNAME", "WANDB_USERNAME", "WANDB_BASE_URL", "WANDB_ERROR_REPORTING",
      "WANDB_API_KEY">>

\* lines 303-306
LiveMockServerDelKeys ==
    <<"WANDB_USERNAME", "WANDB_BASE_URL", "WANDB_ERROR_REPORTING", "WANDB_API_KEY">>

Teardown_live_mock_server ==
    /\ InTeardown("live_mock_server")
    /\ LET r == DelAll(environ, LiveMockServerDelKeys)
       IN  /\ environ' = r.env
           /\ TeardownDone("live_mock_server", r.how)
    /\ UNCHANGED <<child, atexit, ctx, attrs, cwd, testNo, locals, before>>
    /\ UNCHANGED startVars
    /\ UNCHANGED sideVars

\* lines 219-221: wandb.run.join() when a run is still set
Teardown_test_settings ==
    /\ InTeardown("test_settings")
    /\ TeardownDone("test_settings", "ok")
    /\ UNCHANGED <<environ, child, atexit, ctx, attrs, cwd, testNo, locals, before>>
    /\ UNCHANGED startVars
    /\ UNCHANGED sideVars

\* lines 433-437: wandb.join(), then the finally: unset_globals() and the dels
Teardown_wandb_init_run ==
    /\ InTeardown("wandb_init_run")
    /\ attrs' = [attrs EXCEPT !["wandb.run"] = "None"]
    /\ LET r == DelAll(environ, Keys(locals.args_env))
       IN  /\ environ' = r.env
           /\ TeardownDone("wandb_init_run", r.how)
    /\ UNCHANGED <<child, atexit, ctx, cwd, testNo, locals, before>>
    /\ UNCHANGED startVars
    /\ UNCHANGED sideVars

\* lines 163-171: the with block of git_repo ends
Teardown_git_repo ==
    /\ InTeardown("git_repo")
    /\ cwd' = IsolatedExit(locals.git_cwd, cwd)
    /\ TeardownDone("git_repo", "ok")
    /\ UNCHANGED <<environ, child, atexit, ctx, attrs, testNo, locals, before>>
    /\ UNCHANGED startVars
    /\ UNCHANGED sideVars

\* line 383
Teardown_mocked_ipython ==
    /\ InTeardown("mocked_ipython")
    /\ attrs' = [attrs EXCEPT !["wandb.jupyter.get_ipython"] = locals.orig_get_ipython]
    /\ TeardownDone("mocked_ipython", "ok")
    /\ UNCHANGED <<environ, child, atexit, ctx, cwd, testNo, locals, before>>
    /\ UNCHANGED startVars
    /\ UNCHANGED sideVars

\* lines 444-448
Teardown_restore_version ==
    /\ InTeardown("restore_version")
    /\ attrs' = [attrs EXCEPT !["wandb.__version__"] = locals.save_current_version]
    /\ TeardownDone("restore_version", "ok")
    /\ UNCHANGED <<environ, child, atexit, ctx, cwd, testNo, locals, before>>
    /\ UNCHANGED startVars
    /\ UNCHANGED sideVars

\* line 455
Teardown_disable_console ==
    /\ InTeardown("disable_console")
    /\ LET r == DelAll(environ, <<"WANDB_CONSOLE">>)
       IN  /\ environ' = r.env
           /\ TeardownDone("disable_console", r.how)
    /\ UNCHANGED <<child, atexit, ctx, attrs, cwd, testNo, locals, before>>
    /\ UNCHANGED startVars
    /\ UNCHANGED sideVars

(***************************************************************************)
(* The session                                                             *)
(***************************************************************************)
Next ==
    \/ Spawn
    \/ ChildExit
    \/ AttemptAnswered
    \/ AttemptFailedAlive
    \/ AttemptFailedDead
    \/ LoopExhausted
    \/ Return
    \/ FailAfterLoop
    \/ RegisterCleanup
    \/ TestCleanup
    \/ TestStart
    \/ TestEnd
    \/ Setup_monkeypatch
    \/ Setup_mocker
    \/ Setup_plain
    \/ Setup_reset_setup
    \/ Setup_local_netrc
    \/ Setup_local_settings
    \/ Setup_runner
    \/ Setup_test_dir
    \/ Setup_live_mock_server
    \/ Setup_test_settings
    \/ Setup_wandb_init_run
    \/ Setup_disable_console
    \/ Setup_git_repo
    \/ Setup_mocked_ipython
    \/ Setup_restore_version
    \/ BodySetCtx
    \/ BodyInitSetup
    \/ BodyChdir
    \/ BodyMockGetModule
    \/ BodySetVersion
    \/ BodyEnd
    \/ Teardown_monkeypatch
    \/ Teardown_mocker
    \/ Teardown_plain
    \/ Teardown_local_netrc
    \/ Teardown_local_settings
    \/ Teardown_test_dir
    \/ Teardown_live_mock_server
    \/ Teardown_test_settings
    \/ Teardown_wandb_init_run
    \/ Teardown_disable_console
    \/ Teardown_git_repo
    \/ Teardown_mocked_ipython
    \/ Teardown_restore_version

Spec == Init /\ [][Next]_vars

\* start_mock_server on its own: every step of the function is a step the
\* interpreter takes, and every request ends in an answer or in an exception
\* (timeout=5, line 103), so no step waits for ever
NextStart ==
    \/ Spawn
    \/ ChildExit
    \/ AttemptAnswered
    \/ AttemptFailedAlive
    \/ AttemptFailedDead
    \/ LoopExhausted
    \/ Return
    \/ FailAfterLoop

SpecStart == Init /\ [][NextStart]_vars /\ WF_vars(NextStart)

\* a client of the handle, once start_mock_server has returned it; the Context
\* holds whatever earlier clients left in it
InitCtx ==
    /\ pc = "client"
    /\ \E port \in FreePorts :
          /\ environ = [k \in EnvKeys |->
                          CASE k = "PORT" -> Digits(port)
                            [] k = "PYTHONPATH" -> Root
                            [] OTHER -> Absent]
          /\ server = [port |-> port, base_url |-> BaseUrl(port),
                       methods |-> {"get_ctx", "set_ctx", "reset_ctx"}]
          /\ child = [status |-> "alive", envPort |-> Digits(port)]
          /\ before = [environ |-> environ, cwd |-> Root, attrs |-> InitAttrs,
                       ctx |-> EmptyCtx]
    /\ i = 0
    /\ started = FALSE
    /\ poll = InitPoll
    /\ failSteps = <<>>
    /\ atexit = TRUE
    /\ ctx \in {EmptyCtx} \cup Payloads
    /\ attrs = InitAttrs
    /\ cwd = Root
    /\ testNo = 0
    /\ test = NoTest
    /\ locals = NoLocals
    /\ log = <<>>
    /\ kfp = KfpStart(NoList)
    /\ hist = <<>>

NextCtx ==
    \/ ClientGetCtx
    \/ ClientSetCtx
    \/ ClientResetCtx

SpecCtx == InitCtx /\ [][NextCtx]_vars

\* the lists a caller of create_component_from_func may hold
CallerLists == {<<>>, <<"pandas">>}

\* a program that has imported kfp and the patch module
InitKfp ==
    /\ pc = "kfp"
    /\ environ = [k \in EnvKeys |-> Absent]
    /\ server = NoServer
    /\ child = [status |-> "none", envPort |-> <<>>]
    /\ i = 0
    /\ started = FALSE
    /\ poll = InitPoll
    /\ failSteps = <<>>
    /\ atexit = FALSE
    /\ ctx = EmptyCtx
    /\ attrs = InitAttrs
    /\ cwd = Root
    /\ testNo = 0
    /\ test = NoTest
    /\ locals = NoLocals
    /\ before = [environ |-> environ, cwd |-> Root, attrs |-> InitAttrs, ctx |-> EmptyCtx]
    /\ log = <<>>
    /\ \E l \in CallerLists : kfp = KfpStart(l)
    /\ hist = <<>>

NextKfp ==
    \/ Patch
    \/ PatchKfp
    \/ Unpatch
    \/ CreateComponent

SpecKfp == InitKfp /\ [][NextKfp]_vars

(***************************************************************************)
(* Properties                                                              *)
(***************************************************************************)
\* the text of "http://localhost:<port>" for each port of FreePorts
UrlOf(p) ==
    IF p = 8080 THEN <<"http://localhost:", "8", "0", "8", "0">>
    ELSE <<"http://localhost:", "1", "0", "4", "4", "3">>

\* C1: start_mock_server returns only after some liveness request among its 10
\* attempts answered 200, and the handle it returns has base_url
\* "http://localhost:<port>" for the port the child was given in PORT.
C1_ReturnOnlyAfter200 ==
    pc = "returned" =>
        /\ poll.okAttempt \in 1..MaxAttempts
        /\ poll.attempts = poll.okAttempt
        /\ \E p \in FreePorts :
              /\ server.port = p
              /\ server.base_url = UrlOf(p)
              /\ child.envPort = Tail(UrlOf(p))

\* C1 witness: the handle is returned after the last of the 10 attempts succeeded
C1_Witness ==
    /\ pc = "returned"
    /\ poll.okAttempt = MaxAttempts
    /\ server.base_url = UrlOf(10443)

HandleMethods == {"get_ctx", "set_ctx", "reset_ctx"}

\* C2 (as claimed): when the child exits before any liveness request succeeded,
\* start_mock_server raises and no server handle exists at the raise.
C2_NoHandleAtRaise ==
    (pc = "raised" /\ poll.earlyExit) => server = NoServer

\* C2 (amended): when the child exits before any liveness request succeeded,
\* start_mock_server never returns the handle: it leaves by raising, and at the
\* raise the module-level handle, built before the first request, exists.
C2_EarlyExitRaisesHandleExists ==
    poll.earlyExit =>
        \/ pc \in {"poll", "after_loop"}
        \/ /\ pc = "raised"
           /\ server # NoServer
           /\ server.methods = HandleMethods
           /\ server.base_url = UrlOf(server.port)

\* C2 witness: the child exited early and the poll raised from inside the loop
C2_Witness ==
    /\ pc = "raised"
    /\ poll.earlyExit
    /\ failSteps = <<"raise">>
    /\ server.methods = HandleMethods

\* C3: whenever start_mock_server raises (attempts exhausted, or child exited
\* early), it has sent terminate, dumped the log and raised, in that order.
C3_FailureStepsInOrder ==
    pc = "raised" => failSteps = <<"terminate", "dump", "raise">>

\* C4: two consecutive liveness attempts made while the child is alive are
\* separated by the 1-second sleep, whatever the earlier attempt's outcome.
C4_BackoffBetweenAttempts ==
    poll.gap # "immediate"

AtBodyStart == pc = "body" /\ test.fresh
AfterTest == pc = "idle" /\ testNo > 0

\* C5 (as claimed): at the start of every test body the Context is empty, whatever
\* fixtures the test requests.
C5_ContextEmptyAtEveryTestStart ==
    AtBodyStart => ctx = EmptyCtx

\* C5 (amended): at the start of the body of every test that requests
\* live_mock_server, directly or through another fixture, the Context is empty,
\* whatever the previous test wrote.
C5_ContextEmptyWithLiveMockServer ==
    (AtBodyStart /\ InSeq("live_mock_server", test.plan)) => ctx = EmptyCtx

\* C5 witness: a test with live_mock_server starts after a test that left a
\* written Context behind
C5_Witness ==
    /\ AtBodyStart
    /\ InSeq("live_mock_server", test.plan)
    /\ before.ctx # EmptyCtx
    /\ ctx = EmptyCtx

\* C6: every environment variable set before a test's fixtures are set up has
\* the same value after their teardown.
C6_EnvironmentRoundTrip ==
    AfterTest =>
        \A k \in EnvKeys :
            before.environ[k] # Absent => environ[k] = before.environ[k]

HarnessKeys == {"PORT", "PYTHONPATH", "WANDB_USERNAME", "WANDB_BASE_URL",
                "WANDB_ERROR_REPORTING", "WANDB_API_KEY"}

\* C7: none of the variables the harness injects is in the environment once a
\* test has finished, on every path.
C7_HarnessVariablesRemoved ==
    AfterTest => \A k \in HarnessKeys : environ[k] = Absent

IsSetupEntry(e) == e[1] = "setup"
IsTeardownEntry(e) == e[1] = "teardown"
Names(entries) == [j \in 1..Len(entries) |-> entries[j][2]]

\* C8: for a test requesting mocked_run whose body raised, every fixture that was
\* set up has run its teardown to the end, in the reverse of the setup order.
C8_TeardownReversesSetup ==
    (AfterTest /\ test.requested = <<"mocked_run">> /\ test.outcome = "raised") =>
        LET su == SelectSeq(log, IsSetupEntry)
            td == SelectSeq(log, IsTeardownEntry)
        IN  /\ Names(su) = test.plan
            /\ Names(td) = Reverse(Names(su))
            /\ \A j \in 1..Len(log) : log[j][3] = "ok"
            /\ InSeq("test_dir", Names(td)) /\ InSeq("live_mock_server", Names(td))
            /\ InSeq("test_settings", Names(td))

\* C8 witness: such a test has finished, leaving a log of all setups and teardowns
C8_Witness ==
    /\ AfterTest
    /\ test.requested = <<"mocked_run">>
    /\ test.outcome = "raised"
    /\ Len(log) = 2 * Len(test.plan)
    /\ Len(test.plan) = 11

\* C9: while local_netrc is set up, expanding a path that contains "netrc" gives a
\* path inside the directory local_netrc created, whatever the current directory,
\* and expanding any other path gives what the original expanduser gives.
C9_NetrcExpandsInsideSandbox ==
    (pc \in {"setup", "body", "teardown"} /\ IsUp("local_netrc")) =>
        \A p \in SamplePaths :
            LET r == Expanduser(attrs["os.path.expanduser"], cwd, p)
            IN  IF Contains(p, Marker)
                THEN InDir(r, locals.netrc_root)
                ELSE r = OrigExpand(p)

\* C10: _WandbSetup._instance is None when any test body starts and None again
\* once the test's teardown has finished.
C10_SetupSingletonResetAroundTests ==
    /\ AtBodyStart => attrs["_WandbSetup._instance"] = "None"
    /\ AfterTest => attrs["_WandbSetup._instance"] = "None"

\* the attributes C11 names, as keys of attrs
OverrideKeys == {"os.path.expanduser", "wandb.jupyter.get_ipython", "wandb.util.get_module",
                 "wandb.__version__", "wandb._IS_INTERNAL_PROCESS", "wandb_run.EXIT_TIMEOUT",
                 "click.launch", "webbrowser.open_new_tab"}

\* C11 (as claimed): once a test's teardown has finished, every attribute a
\* fixture overrode has the value it had before the test's setup, whether the
\* test passed or raised.
C11_OverridesReverted ==
    AfterTest => \A k \in OverrideKeys : attrs[k] = before.attrs[k]

\* C12: once the teardown of any test has finished, the current working
\* directory is the one from before the test's setup, also when the body raised
\* or changed directory, with or without test_dir and git_repo.
C12_WorkingDirectoryRestored ==
    AfterTest => cwd = before.cwd

\* C12 witness: a test with test_dir whose body changed directory and raised
C12_Witness ==
    /\ AfterTest
    /\ InSeq("test_dir", test.plan)
    /\ test.moved
    /\ test.outcome = "raised"
    /\ cwd = Root

\* C13 (as claimed): after a test that requested wandb_init_run, every variable
\* of args["env"] is unset and neither the fixture's finally block nor its
\* teardown raised, on every path through setup and body.
C13_InjectedVariablesUnset ==
    (AfterTest /\ InSeq("wandb_init_run", test.plan)) =>
        /\ \A j \in 1..Len(locals.args_env) : environ[locals.args_env[j][1]] = Absent
        /\ \A j \in 1..Len(log) :
              (log[j][2] = "wandb_init_run" /\ log[j][1] \in {"teardown", "finally"})
                  => log[j][3] = "ok"

\* C14: the child is not running once start_mock_server has raised nor once the
\* session has ended, and whenever tests can run the exit hook is registered.
C14_ChildNotLeftRunning ==
    /\ pc \in {"raised", "exited"} => child.status # "alive"
    /\ pc \in {"idle", "setup", "body", "teardown"} => atexit

\* C14 witness: the session ended after a test, and the hook terminated the child
C14_Witness ==
    /\ pc = "exited"
    /\ child.status = "terminated"
    /\ testNo > 0

\* C15 (as claimed): create_component_from_func(func) with packages_to_install
\* left at its default returns a task factory.
C15_DefaultPackagesReturnsFactory ==
    kfp.lastOp = <<"create", "default">> => kfp.result = "task factory"

\* C16: in the calls one client makes, get_ctx() right after reset_ctx() returns
\* the empty Context, and get_ctx() right after reset_ctx(), set_ctx(p) returns p.
C16_ContextRoundTrip ==
    \A j \in 1..Len(hist) :
        hist[j][1] = "reset_ctx" =>
            /\ (j + 1 <= Len(hist) /\ hist[j + 1][1] = "get_ctx")
                  => hist[j + 1][2] = EmptyCtx
            /\ (j + 2 <= Len(hist) /\ hist[j + 1][1] = "set_ctx"
                                   /\ hist[j + 2][1] = "get_ctx")
                  => hist[j + 2][2] = hist[j + 1][2]

\* C16 witness: reset, get, set, get, reset, get on a Context that held something
C16_Witness ==
    /\ Len(hist) = 6
    /\ [j \in 1..6 |-> hist[j][1]] =
          <<"reset_ctx", "get_ctx", "set_ctx", "get_ctx", "reset_ctx", "get_ctx">>
    /\ hist[4][2] # EmptyCtx

HasLogEntry(kind, f, how) == \E j \in 1..Len(log) : log[j] = <<kind, f, how>>

\* C17: when the child is dead as live_mock_server is set up for a test that uses
\* test_settings, the very next step is the failure of that setup; test_settings
\* is only ever set up after live_mock_server's setup succeeded, and after a
\* failed setup no body runs; no test starts without a handle.
C17_NoServerFailsFast ==
    /\ [][(InSetup("live_mock_server") /\ InSeq("test_settings", test.plan)
              /\ child.status # "alive")
             => (pc' = "teardown" /\ test'.setupFailed
                   /\ log' = Append(log, <<"setup", "live_mock_server", "raised">>))]_vars
    /\ [](IsUp("test_settings") => HasLogEntry("setup", "live_mock_server", "ok"))
    /\ []((pc \in {"teardown", "idle"} /\ test.setupFailed) => test.outcome = "none")
    /\ [](pc \in {"setup", "body", "teardown"} => server # NoServer)

\* C17 witness: a test requesting test_settings ended with live_mock_server's
\* setup failed on a dead child
C17_Witness ==
    /\ AfterTest
    /\ test.requested = <<"test_settings">>
    /\ HasLogEntry("setup", "live_mock_server", "raised")
    /\ child.status = "exited"

\* C18: start_mock_server ends, returned or raised, whatever the child does; it
\* makes at most MaxAttempts requests, none after a 200 and none after it has
\* seen the child gone.
C18_PollTerminates ==
    /\ <>(pc \in {"returned", "raised"})
    /\ [](poll.attempts <= MaxAttempts)
    /\ [](poll.okAttempt # 0 => poll.attempts = poll.okAttempt)
    /\ [][poll'.attempts # poll.attempts
             => (pc = "poll" /\ poll.okAttempt = 0 /\ failSteps = <<>>)]_vars

\* C18 witness: the child stayed alive and never answered 200: all requests used
C18_Witness ==
    /\ pc = "raised"
    /\ poll.attempts = MaxAttempts
    /\ child.status = "terminated"

RanTestSettings ==
    AfterTest /\ test.requested = <<"test_settings">> /\ ~test.setupFailed

C20_PatchRoundTrip ==
    \A m \in KfpModules :
        kfp.lastOp = <<"unpatch", m>> =>
            /\ \A f \in KfpFuncs : kfp.attr[m][NameOf(f)] = "kfp"
            /\ kfp.patched[m].list = <<>>

\* C21 (as claimed): after any call that passed the caller's list, the list
\* holds what it held before the first call, and the component spec was built
\* from those packages plus one "wandb".
C21_CallerListUnchanged ==
    kfp.lastOp = <<"create", "list">> =>
        /\ kfp.pkgs = kfp.first
        /\ kfp.passed = Append(kfp.first, "wandb")

====
